---- MODULE Spec2Model ----
(***************************************************************************)
(* Course Correct REST API: the route handlers of the tutor availability,  *)
(* tutor booking and study group routers, each modelled as one atomic      *)
(* action on the document store (availability slots, bookings, study       *)
(* groups and the users' back-reference lists).                            *)
(*                                                                         *)
(* Times are integers (instants); a calendar day d covers the instants     *)
(* DayStart(d) .. DayStart(d) + DayLen - 1.  Identifiers of documents are  *)
(* positive integers handed out by a counter and never reused.             *)
(***************************************************************************)
EXTENDS Integers, Sequences, FiniteSets, TLC

\* ------------------------------------------------------------------ bounds
MaxTime == 2
MaxNow == 1
MaxSlots == 3
MaxEditSlots == 2
MaxBookings == 1
MaxGroups == 1
MaxAuthDocs == 1

\* the instants of one calendar day
DayLen == 2

\* ------------------------------------------------------- principals, inputs
Tutors == {"t1", "t2"}
Students == {"s1", "s2", "s3"}
Users == Tutors \cup Students

\* req.user.role, attached by the authentication middleware
RoleStudent(u) == "student"

Role(u) == IF u \in Tutors THEN "tutor" ELSE "student"

Times == 0 .. MaxTime
Days == 0 .. (MaxTime \div DayLen)

\* a field missing from a request body
NoTime == -1
NoStatus == ""

VARIABLES
    now,                   \* the current instant, new Date()
    slots,                 \* Availability collection: id -> document
    slotIds,               \* number of Availability documents ever saved
    tutoringAvailability,  \* User.tutoringAvailability: user -> sequence of slot ids
    bookings,              \* TutorBooking collection: id -> document (a sequence)
    groups,                \* StudyGroup collection: id -> document
    groupIds,              \* number of StudyGroup documents ever saved
    joinedStudyGroups,     \* User.joinedStudyGroups: user -> sequence of group ids
    last,                  \* the last request handled and its HTTP status
    calls                  \* the requests in flight: handler position and locals

vars == <<now, slots, slotIds, tutoringAvailability, bookings, groups, groupIds,
          joinedStudyGroups, last, calls>>

tutorVars == <<now, slots, slotIds, tutoringAvailability>>
groupVars == <<groups, groupIds, joinedStudyGroups>>

Response(op, u, id, status, message) ==
    [op |-> op, user |-> u, id |-> id, status |-> status, message |-> message]

\* the requests that can be in flight together, and one not yet received
Calls == {"c1", "c2"}
Idle ==
    [op |-> "none", user |-> "none", id |-> 0, body |-> <<>>, k |-> 0,
     existing |-> {}, created |-> <<>>, pc |-> "idle", status |-> 0]

Init ==
    /\ now = 0
    /\ slots = [i \in {} |-> 0]
    /\ slotIds = 0
    /\ tutoringAvailability = [u \in Users |-> <<>>]
    /\ bookings = <<>>
    /\ groups = [i \in {} |-> 0]
    /\ groupIds = 0
    /\ joinedStudyGroups = [u \in Users |-> <<>>]
    /\ last = Response("none", "none", 0, 0, "none")
    /\ calls = [c \in Calls |-> Idle]

\* ---------------------------------------------------------------- bookings

\* POST /api/bookings
CreateBookingAnyRole(u, tutor, subject, bookingTime) ==
    /\ bookings' = Append(bookings,
                      [student |-> u, tutor |-> tutor, subject |-> subject,
                       bookingTime |-> bookingTime, status |-> "pending"])
    /\ last' = Response("createBooking", u, Len(bookings) + 1, 201, "ok")
    /\ UNCHANGED <<tutorVars, groupVars, calls>>

CreateBooking(u, tutor, subject, bookingTime) ==
    /\ IF Role(u) # "student"
       THEN /\ last' = Response("createBooking", u, 0, 403, "OnlyStudents")
            /\ UNCHANGED bookings
       ELSE /\ bookings' = Append(bookings,
                              [student |-> u, tutor |-> tutor, subject |-> subject,
                               bookingTime |-> bookingTime, status |-> "pending"])
            /\ last' = Response("createBooking", u, Len(bookings) + 1, 201, "ok")
    /\ UNCHANGED <<tutorVars, groupVars, calls>>

\* the statuses a PATCH may name
ValidStatusWithPending == {"pending", "confirmed", "completed", "cancelled"}

ValidStatus == {"confirmed", "completed", "cancelled"}

\* a tutor may only confirm or complete, a student may only cancel
StatusAllowedWrongCancel(role, status) ==
    \/ role = "tutor"
    \/ role = "student" /\ status = "cancelled"

StatusAllowedAnyRole(role, status) == TRUE

StatusAllowed(role, status) ==
    \/ role = "tutor" /\ status \in {"confirmed", "completed"}
    \/ role = "student" /\ status = "cancelled"

\* PATCH /api/bookings/:id
PatchBookingTimeWithStatus(u, id, status, bookingTime) ==
    /\ IF id \notin DOMAIN bookings
       THEN /\ last' = Response("patchBooking", u, id, 404, "NotFound")
            /\ UNCHANGED bookings
       ELSE IF status # NoStatus /\ status \notin ValidStatus
       THEN /\ last' = Response("patchBooking", u, id, 400, "InvalidStatus")
            /\ UNCHANGED bookings
       ELSE IF status # NoStatus /\ ~StatusAllowed(Role(u), status)
       THEN /\ last' = Response("patchBooking", u, id, 403,
                             IF Role(u) = "tutor" THEN "TutorsCannotCancel"
                                                  ELSE "StudentsOnlyCancel")
            /\ UNCHANGED bookings
       ELSE /\ bookings' = [bookings EXCEPT
                    ![id].status = IF status # NoStatus THEN status ELSE @,
                    ![id].bookingTime =
                        IF status # NoStatus /\ bookingTime # NoTime
                        THEN bookingTime ELSE @]
            /\ last' = Response("patchBooking", u, id, 200, "ok")
    /\ UNCHANGED <<tutorVars, groupVars, calls>>

PatchBooking(u, id, status, bookingTime) ==
    /\ IF id \notin DOMAIN bookings
       THEN /\ last' = Response("patchBooking", u, id, 404, "NotFound")
            /\ UNCHANGED bookings
       ELSE IF status # NoStatus /\ status \notin ValidStatus
       THEN /\ last' = Response("patchBooking", u, id, 400, "InvalidStatus")
            /\ UNCHANGED bookings
       ELSE IF status # NoStatus /\ ~StatusAllowed(Role(u), status)
       THEN /\ last' = Response("patchBooking", u, id, 403,
                             IF Role(u) = "tutor" THEN "TutorsCannotCancel"
                                                  ELSE "StudentsOnlyCancel")
            /\ UNCHANGED bookings
       ELSE /\ bookings' = [bookings EXCEPT
                    ![id].status = IF status # NoStatus THEN status ELSE @,
                    ![id].bookingTime = IF bookingTime # NoTime THEN bookingTime ELSE @]
            /\ last' = Response("patchBooking", u, id, 200, "ok")
    /\ UNCHANGED <<tutorVars, groupVars, calls>>

\* request bodies of PATCH /bookings/:id and PATCH /availability/:id
StatusArgs == {NoStatus, "pending"} \cup ValidStatus
TimeArgs == {NoTime} \cup Times
BookingTimeArgs == {NoTime, 1}
BookingIds == 1 .. MaxBookings

\* the principals that call the booking router
BookingCallers == Tutors \cup {"s1", "s2"}

NextBooking ==
    \/ /\ Len(bookings) < MaxBookings
       /\ \E u \in BookingCallers, t \in Tutors : CreateBooking(u, t, "math", 0)
    \/ \E u \in BookingCallers, id \in BookingIds, st \in StatusArgs,
          bt \in BookingTimeArgs :
             PatchBooking(u, id, st, bt)

SpecBooking == Init /\ [][NextBooking]_vars

\* ------------------------------------------------------------ availability

\* a stored collection with one more document, and with one document removed
Put(coll, id, doc) == [i \in DOMAIN coll \cup {id} |-> IF i = id THEN doc ELSE coll[i]]
RemoveNone(coll, id) == coll
Remove(coll, id) == [i \in DOMAIN coll \ {id} |-> coll[i]]

\* Availability.find({tutor, day}): the ids of the tutor's slots of that day
SlotsOfDay(sl, tutor, day) ==
    {i \in DOMAIN sl : sl[i].tutor = tutor /\ sl[i].day = day}

\* .sort({startTime: 1}) then [length - 1]: a slot with the greatest startTime
\* (documents with equal startTime come back in any order)
LastSlotFirst(sl, existing) ==
    {i \in existing : \A j \in existing : sl[i].startTime <= sl[j].startTime}

LastSlot(sl, existing) ==
    {i \in existing : \A j \in existing : sl[j].startTime <= sl[i].startTime}

\* earliestAvailableStartTime: the proposed start itself, or the last slot's end
EarliestStartOwn(sl, existing, startTime) == {startTime}

EarliestStart(sl, existing, startTime) ==
    IF existing = {} THEN {startTime}
    ELSE {sl[i].endTime : i \in LastSlot(sl, existing)}

\* startDate < new Date()
InPastNever(startTime, instant) == FALSE

InPast(startTime, instant) == startTime < instant

\* the for loop of POST /availability from slot k of the body on; st is
\* [slots, slotIds, created]; the set of possible outcomes, each
\* [slots, slotIds, created, status, message]
RECURSIVE AddSlots(_, _, _, _)
AddSlots(tutor, body, k, st) ==
    IF k > Len(body)
    THEN {[slots |-> st.slots, slotIds |-> st.slotIds, created |-> st.created,
           status |-> 201, message |-> "ok"]}
    ELSE LET s == body[k]
             rejected(message) ==
                 [slots |-> st.slots, slotIds |-> st.slotIds,
                  created |-> st.created, status |-> 400, message |-> message]
             id == st.slotIds + 1
             saved == [slots |-> Put(st.slots, id,
                                     [tutor |-> tutor, day |-> s.day,
                                      subject |-> s.subject,
                                      startTime |-> s.startTime,
                                      endTime |-> s.endTime, isActive |-> TRUE]),
                       slotIds |-> id,
                       created |-> Append(st.created, id)]
         IN IF InPast(s.startTime, now)
            THEN {rejected("PastStartTime")}
            ELSE UNION {IF s.startTime < floor
                        THEN {rejected("OutOfOrderSlot")}
                        ELSE AddSlots(tutor, body, k + 1, saved)
                        : floor \in EarliestStart(st.slots,
                                        SlotsOfDay(st.slots, tutor, s.day),
                                        s.startTime)}

\* POST /api/tutors/availability
AddAvailabilityPushAlways(u, body) ==
    /\ IF Role(u) # "tutor"
       THEN /\ last' = Response("addAvailability", u, 0, 403, "OnlyTutors")
            /\ UNCHANGED <<slots, slotIds, tutoringAvailability>>
       ELSE \E r \in AddSlots(u, body, 1,
                              [slots |-> slots, slotIds |-> slotIds, created |-> <<>>]) :
            /\ slots' = r.slots
            /\ slotIds' = r.slotIds
            /\ tutoringAvailability' = [tutoringAvailability EXCEPT ![u] = @ \o r.created]
            /\ last' = Response("addAvailability", u, 0, r.status, r.message)
    /\ UNCHANGED <<now, bookings, groupVars, calls>>

AddAvailability(u, body) ==
    /\ IF Role(u) # "tutor"
       THEN /\ last' = Response("addAvailability", u, 0, 403, "OnlyTutors")
            /\ UNCHANGED <<slots, slotIds, tutoringAvailability>>
       ELSE \E r \in AddSlots(u, body, 1,
                              [slots |-> slots, slotIds |-> slotIds, created |-> <<>>]) :
            /\ slots' = r.slots
            /\ slotIds' = r.slotIds
            /\ tutoringAvailability' =
                  IF r.status = 201
                  THEN [tutoringAvailability EXCEPT ![u] = @ \o r.created]
                  ELSE tutoringAvailability
            /\ last' = Response("addAvailability", u, 0, r.status, r.message)
    /\ UNCHANGED <<now, bookings, groupVars, calls>>

\* TutorBooking.find({tutor, bookingTime: {$gte: from, $lt: to}}) is not empty
HasBookingClosed(tutor, from, to) ==
    \E i \in DOMAIN bookings :
        /\ bookings[i].tutor = tutor
        /\ bookings[i].bookingTime >= from
        /\ bookings[i].bookingTime <= to

HasBooking(tutor, from, to) ==
    \E i \in DOMAIN bookings :
        /\ bookings[i].tutor = tutor
        /\ bookings[i].bookingTime >= from
        /\ bookings[i].bookingTime < to

\* new Date(day), and new Date(day).setHours(23, 59, 59, 999)
DayStart(day) == day * DayLen
DayEnd(day) == day * DayLen + DayLen - 1

NoSubject == ""
NoFlag == "undefined"

\* PATCH /api/tutors/availability/:id
PatchAvailability(u, id, body) ==
    /\ IF Role(u) # "tutor"
       THEN /\ last' = Response("patchAvailability", u, id, 403, "OnlyTutors")
            /\ UNCHANGED slots
       ELSE IF id \notin DOMAIN slots
       THEN /\ last' = Response("patchAvailability", u, id, 404, "NotFound")
            /\ UNCHANGED slots
       ELSE IF HasBooking(u, slots[id].startTime, slots[id].endTime)
       THEN /\ last' = Response("patchAvailability", u, id, 400, "Booked")
            /\ UNCHANGED slots
       ELSE IF body.disableDay
       THEN IF ~HasBooking(u, DayStart(slots[id].day), DayEnd(slots[id].day))
            THEN /\ slots' = [i \in DOMAIN slots |->
                                IF slots[i].tutor = u /\ slots[i].day = slots[id].day
                                THEN [slots[i] EXCEPT !.isActive = FALSE]
                                ELSE slots[i]]
                 /\ last' = Response("patchAvailability", u, id, 200, "DayDisabled")
            ELSE /\ last' = Response("patchAvailability", u, id, 400, "DayBooked")
                 /\ UNCHANGED slots
       ELSE /\ slots' = [slots EXCEPT
                  ![id].subject = IF body.subject # NoSubject THEN body.subject ELSE @,
                  ![id].startTime = IF body.startTime # NoTime THEN body.startTime ELSE @,
                  ![id].endTime = IF body.endTime # NoTime THEN body.endTime ELSE @,
                  ![id].isActive = IF body.isActive # NoFlag THEN body.isActive = "true" ELSE @]
            /\ last' = Response("patchAvailability", u, id, 200, "ok")
    /\ UNCHANGED <<now, slotIds, tutoringAvailability, bookings, groupVars, calls>>

\* DELETE /api/tutors/availability/:id
DeleteAvailability(u, id) ==
    /\ IF Role(u) # "tutor"
       THEN /\ last' = Response("deleteAvailability", u, id, 403, "OnlyTutors")
            /\ UNCHANGED slots
       ELSE IF id \notin DOMAIN slots
       THEN /\ last' = Response("deleteAvailability", u, id, 404, "NotFound")
            /\ UNCHANGED slots
       ELSE IF HasBooking(u, slots[id].startTime, slots[id].endTime)
       THEN /\ last' = Response("deleteAvailability", u, id, 400, "Booked")
            /\ UNCHANGED slots
       ELSE /\ slots' = Remove(slots, id)
            /\ last' = Response("deleteAvailability", u, id, 200, "ok")
    /\ UNCHANGED <<now, slotIds, tutoringAvailability, bookings, groupVars, calls>>

\* time passes
Tick ==
    /\ now < MaxNow
    /\ now' = now + 1
    /\ UNCHANGED <<slots, slotIds, tutoringAvailability, bookings, groupVars, last,
                   calls>>

\* the principals that call the availability router
TutorCallers == Tutors \cup {"s1"}

\* request bodies of POST /availability: one slot, or two slots of day 0
SlotArg(day, startTime, endTime) ==
    [day |-> day, subject |-> "math", startTime |-> startTime, endTime |-> endTime]
AddBodies ==
    {<<SlotArg(0, a, b)>> : a \in Times, b \in Times}
    \cup {<<SlotArg(d, 0, 1)>> : d \in Days}
    \cup {<<SlotArg(0, 0, 1), SlotArg(0, a, b)>> : a \in Times, b \in Times}

\* the requests of POST /availability: any body by tutor t1, one body by others
AddRequests ==
    {<<"t1", body>> : body \in AddBodies}
    \cup {<<u, <<SlotArg(0, 0, 1)>>>> : u \in TutorCallers}

NextAdd ==
    \/ Tick
    \/ \E r \in AddRequests :
          /\ slotIds + Len(r[2]) <= MaxSlots
          /\ AddAvailability(r[1], r[2])

SpecAdd == Init /\ [][NextAdd]_vars

\* request bodies of PATCH /availability/:id
PatchBody(subject, startTime, endTime, isActive, disableDay) ==
    [subject |-> subject, startTime |-> startTime, endTime |-> endTime,
     isActive |-> isActive, disableDay |-> disableDay]
PatchBodies ==
    {PatchBody("art", NoTime, NoTime, NoFlag, FALSE),
     PatchBody(NoSubject, 1, 2, NoFlag, FALSE),
     PatchBody(NoSubject, NoTime, NoTime, "false", FALSE),
     PatchBody(NoSubject, NoTime, NoTime, "true", FALSE),
     PatchBody(NoSubject, NoTime, NoTime, NoFlag, TRUE),
     PatchBody("art", 1, 2, "true", TRUE)}
SlotIdArgs == 1 .. MaxEditSlots

NextTutor ==
    \/ \E u \in TutorCallers, d \in Days, w \in {<<0, 1>>, <<1, 2>>} :
          /\ slotIds < MaxEditSlots
          /\ AddAvailability(u, <<SlotArg(d, w[1], w[2])>>)
    \/ \E u \in TutorCallers, id \in SlotIdArgs, body \in PatchBodies :
          PatchAvailability(u, id, body)
    \/ \E u \in TutorCallers, id \in SlotIdArgs : DeleteAvailability(u, id)
    \/ /\ Len(bookings) < MaxBookings
       /\ \E t \in Tutors, bt \in Times : CreateBooking("s1", t, "math", bt)

SpecTutor == Init /\ [][NextTutor]_vars

\* ------------------------------------------------------------ study groups

\* a field missing from a request body (undefined), and the falsy empty string
Undefined == "undefined"
Truthy(v) == v \notin {Undefined, ""}

\* participants.includes(id), and participants.filter(p => p !== id)
IncludesFirst(seq, x) == Len(seq) > 0 /\ seq[1] = x
Includes(seq, x) == \E i \in DOMAIN seq : seq[i] = x
WithoutNone(seq, x) == seq
Without(seq, x) == SelectSeq(seq, LAMBDA p : p # x)

\* POST /api/studyGroups
CreateGroup(u, body) ==
    /\ IF Role(u) # "student"
       THEN /\ last' = Response("createGroup", u, 0, 403, "OnlyStudents")
            /\ UNCHANGED groupVars
       ELSE LET id == groupIds + 1 IN
            /\ groups' = Put(groups, id,
                             [subject |-> body.subject, description |-> body.description,
                              date |-> body.date, time |-> body.time,
                              duration |-> body.duration,
                              creator |-> u, participants |-> <<u>>])
            /\ groupIds' = id
            /\ joinedStudyGroups' = [joinedStudyGroups EXCEPT ![u] = Append(@, id)]
            /\ last' = Response("createGroup", u, id, 201, "ok")
    /\ UNCHANGED <<tutorVars, bookings, calls>>

\* studyGroup.creator.toString() === req.user.id
IsCreatorNever(g, u) == FALSE

IsCreator(g, u) == g.creator = u

\* studyGroup.participants.includes(req.user.id)
IsParticipantNever(g, u) == FALSE

IsParticipant(g, u) == Includes(g.participants, u)

\* POST /api/studyGroups/:id/join
JoinGroup(u, id) ==
    /\ IF id \notin DOMAIN groups
       THEN /\ last' = Response("joinGroup", u, id, 404, "NotFound")
            /\ UNCHANGED groupVars
       ELSE IF Role(u) # "student"
       THEN /\ last' = Response("joinGroup", u, id, 403, "OnlyStudents")
            /\ UNCHANGED groupVars
       ELSE IF IsCreator(groups[id], u)
       THEN /\ last' = Response("joinGroup", u, id, 400, "AlreadyCreator")
            /\ UNCHANGED groupVars
       ELSE IF IsParticipant(groups[id], u)
       THEN /\ last' = Response("joinGroup", u, id, 400, "AlreadyJoined")
            /\ UNCHANGED groupVars
       ELSE /\ groups' = [groups EXCEPT ![id].participants = Append(@, u)]
            /\ joinedStudyGroups' = [joinedStudyGroups EXCEPT ![u] = Append(@, id)]
            /\ last' = Response("joinGroup", u, id, 200, "ok")
            /\ UNCHANGED groupIds
    /\ UNCHANGED <<tutorVars, bookings, calls>>

\* the participants left after the requester is filtered out
RemainingCreatorOnly(g, u) == SelectSeq(g.participants, LAMBDA p : p = g.creator)

Remaining(g, u) == Without(g.participants, u)

\* POST /api/studyGroups/:id/leave
LeaveGroup(u, id) ==
    /\ IF id \notin DOMAIN groups
       THEN /\ last' = Response("leaveGroup", u, id, 404, "NotFound")
            /\ UNCHANGED groupVars
       ELSE IF Role(u) # "student"
       THEN /\ last' = Response("leaveGroup", u, id, 403, "OnlyStudents")
            /\ UNCHANGED groupVars
       ELSE IF IsCreator(groups[id], u)
       THEN /\ last' = Response("leaveGroup", u, id, 400, "CreatorCannotLeave")
            /\ UNCHANGED groupVars
       ELSE IF ~IsParticipant(groups[id], u)
       THEN /\ last' = Response("leaveGroup", u, id, 400, "NotAParticipant")
            /\ UNCHANGED groupVars
       ELSE /\ groups' = [groups EXCEPT ![id].participants = Remaining(groups[id], u)]
            /\ joinedStudyGroups' = [joinedStudyGroups EXCEPT ![u] = Without(@, id)]
            /\ last' = Response("leaveGroup", u, id, 200, "ok")
            /\ UNCHANGED groupIds
    /\ UNCHANGED <<tutorVars, bookings, calls>>

\* participants.length > 1 && (subject || date || time)
LockedSubjectOnly(g, body) == Len(g.participants) > 1 /\ Truthy(body.subject)

Locked(g, body) ==
    /\ Len(g.participants) > 1
    /\ (Truthy(body.subject) \/ Truthy(body.date) \/ Truthy(body.time))

\* PATCH /api/studyGroups/:id
UpdateGroup(u, id, body) ==
    /\ IF id \notin DOMAIN groups
       THEN /\ last' = Response("updateGroup", u, id, 404, "NotFound")
            /\ UNCHANGED groups
       ELSE IF groups[id].creator # u
       THEN /\ last' = Response("updateGroup", u, id, 403, "OnlyCreator")
            /\ UNCHANGED groups
       ELSE IF Locked(groups[id], body)
       THEN /\ last' = Response("updateGroup", u, id, 400, "Locked")
            /\ UNCHANGED groups
       ELSE /\ groups' = [groups EXCEPT
                  ![id].subject = IF Truthy(body.subject) THEN body.subject ELSE @,
                  ![id].description =
                      IF body.description # Undefined THEN body.description ELSE @,
                  ![id].date = IF Truthy(body.date) THEN body.date ELSE @,
                  ![id].time = IF Truthy(body.time) THEN body.time ELSE @,
                  ![id].duration = IF Truthy(body.duration) THEN body.duration ELSE @]
            /\ last' = Response("updateGroup", u, id, 200, "ok")
    /\ UNCHANGED <<tutorVars, bookings, groupIds, joinedStudyGroups, calls>>

\* the participants other than the requester
OtherParticipantsNone(g, u) == <<>>

OtherParticipants(g, u) == Without(g.participants, u)

\* DELETE /api/studyGroups/:id
DeleteGroup(u, id) ==
    /\ IF id \notin DOMAIN groups
       THEN /\ last' = Response("deleteGroup", u, id, 404, "NotFound")
            /\ UNCHANGED groupVars
       ELSE IF groups[id].creator # u
       THEN /\ last' = Response("deleteGroup", u, id, 403, "OnlyCreator")
            /\ UNCHANGED groupVars
       ELSE IF Len(OtherParticipants(groups[id], u)) > 0
       THEN /\ last' = Response("deleteGroup", u, id, 400, "HasParticipants")
            /\ UNCHANGED groupVars
       ELSE /\ joinedStudyGroups' =
                  [joinedStudyGroups EXCEPT ![groups[id].creator] = Without(@, id)]
            /\ groups' = Remove(groups, id)
            /\ last' = Response("deleteGroup", u, id, 200, "ok")
            /\ UNCHANGED groupIds
    /\ UNCHANGED <<tutorVars, bookings, calls>>

\* the principals that call the study group router
GroupCallers == Students \cup {"t1"}

\* request bodies of POST and PATCH /studyGroups
GroupBody(subject, description, date, time, duration) ==
    [subject |-> subject, description |-> description, date |-> date,
     time |-> time, duration |-> duration]
NewGroup == GroupBody("a", "a", "a", "a", "a")
UpdateBodies ==
    {GroupBody("b", Undefined, Undefined, Undefined, Undefined),
     GroupBody(Undefined, Undefined, "a", "a", Undefined),
     GroupBody(Undefined, "b", Undefined, Undefined, "a"),
     GroupBody("", Undefined, "", "", "")}
GroupIdArgs == 1 .. MaxGroups

NextGroup ==
    \/ /\ groupIds < MaxGroups
       /\ \E u \in GroupCallers : CreateGroup(u, NewGroup)
    \/ \E u \in GroupCallers, id \in GroupIdArgs : JoinGroup(u, id)
    \/ \E u \in GroupCallers, id \in GroupIdArgs : LeaveGroup(u, id)
    \/ \E u \in GroupCallers, id \in GroupIdArgs, body \in UpdateBodies :
          UpdateGroup(u, id, body)
    \/ \E u \in GroupCallers, id \in GroupIdArgs : DeleteGroup(u, id)

SpecGroup == Init /\ [][NextGroup]_vars

\* ------------------------------------------------- role gates of all routers

\* the principals and the one-document requests that meet the role checks
AuthCallers == {"t1", "s1", "s2"}
AuthIds == 1 .. MaxAuthDocs

NextAuth ==
    \/ /\ slotIds < MaxAuthDocs
       /\ \E u \in AuthCallers : AddAvailability(u, <<SlotArg(0, 0, 1)>>)
    \/ \E u \in AuthCallers, id \in AuthIds :
          PatchAvailability(u, id, PatchBody("art", NoTime, NoTime, NoFlag, FALSE))
    \/ \E u \in AuthCallers, id \in AuthIds : DeleteAvailability(u, id)
    \/ /\ Len(bookings) < MaxAuthDocs
       /\ \E u \in AuthCallers : CreateBooking(u, "t1", "math", 0)
    \/ /\ groupIds < MaxAuthDocs
       /\ \E u \in AuthCallers : CreateGroup(u, NewGroup)
    \/ \E u \in AuthCallers, id \in AuthIds : JoinGroup(u, id)
    \/ \E u \in AuthCallers, id \in AuthIds : LeaveGroup(u, id)

SpecAuth == Init /\ [][NextAuth]_vars

\* ------------------------------------- handlers step by step, interleaved
\* Each step is one database operation of a handler together with the
\* synchronous code up to the next await; requests in flight interleave at
\* these steps.  An awaited operation may reject: the catch block answers 500.

\* call c moves on with these locals changed
Goto(c, call) == calls' = [calls EXCEPT ![c] = call]

\* call c is answered
Answer(c, call, status, message) ==
    /\ calls' = [calls EXCEPT ![c] = [call EXCEPT !.pc = "done", !.status = status]]
    /\ last' = Response(call.op, call.user, call.id, status, message)

\* POST /availability is received: the role check, then the loop is entered
ReceiveAdd(c, u, body) ==
    /\ calls[c].pc = "idle"
    /\ LET call == [Idle EXCEPT !.op = "addAvailability", !.user = u, !.body = body,
                                !.k = 1]
       IN  IF Role(u) # "tutor"
           THEN Answer(c, call, 403, "OnlyTutors")
           ELSE Goto(c, [call EXCEPT !.pc = "find"]) /\ UNCHANGED last
    /\ UNCHANGED <<tutorVars, bookings, groupVars>>

\* the past check, Availability.find({tutor, day}).sort() and the order check
AddFind(c) ==
    /\ calls[c].op = "addAvailability" /\ calls[c].pc = "find"
    /\ LET call == calls[c]
           s == call.body[call.k]
           existing == SlotsOfDay(slots, call.user, s.day)
       IN  IF InPast(s.startTime, now)
           THEN Answer(c, call, 400, "PastStartTime")
           ELSE \E floor \in EarliestStart(slots, existing, s.startTime) :
                   IF s.startTime < floor
                   THEN Answer(c, call, 400, "OutOfOrderSlot")
                   ELSE /\ Goto(c, [call EXCEPT !.pc = "save", !.existing = existing])
                        /\ UNCHANGED last
    /\ UNCHANGED <<tutorVars, bookings, groupVars>>

\* newAvailability.save(), createdSlots.push(), and the next slot or the end
AddSaveChecked(c) ==
    /\ calls[c].op = "addAvailability" /\ calls[c].pc = "save"
    /\ LET call == calls[c]
           s == call.body[call.k]
           id == slotIds + 1
       IN  \E floor \in EarliestStart(slots, SlotsOfDay(slots, call.user, s.day),
                                      s.startTime) :
              IF s.startTime < floor
              THEN /\ Answer(c, call, 400, "OutOfOrderSlot")
                   /\ UNCHANGED <<slots, slotIds>>
              ELSE /\ slots' = Put(slots, id,
                                   [tutor |-> call.user, day |-> s.day,
                                    subject |-> s.subject, startTime |-> s.startTime,
                                    endTime |-> s.endTime, isActive |-> TRUE])
                   /\ slotIds' = id
                   /\ Goto(c, [call EXCEPT
                                 !.created = Append(@, id),
                                 !.k = @ + 1,
                                 !.pc = IF call.k = Len(call.body) THEN "push"
                                        ELSE "find"])
                   /\ UNCHANGED last
    /\ UNCHANGED <<now, tutoringAvailability, bookings, groupVars>>

AddSave(c) ==
    /\ calls[c].op = "addAvailability" /\ calls[c].pc = "save"
    /\ LET call == calls[c]
           s == call.body[call.k]
           id == slotIds + 1
       IN  /\ slots' = Put(slots, id,
                           [tutor |-> call.user, day |-> s.day, subject |-> s.subject,
                            startTime |-> s.startTime, endTime |-> s.endTime,
                            isActive |-> TRUE])
           /\ slotIds' = id
           /\ Goto(c, [call EXCEPT
                         !.created = Append(@, id),
                         !.k = @ + 1,
                         !.pc = IF call.k = Len(call.body) THEN "push" ELSE "find"])
    /\ UNCHANGED <<now, tutoringAvailability, bookings, groupVars, last>>

\* User.findByIdAndUpdate(tutorId, {$push: {tutoringAvailability: ...}}), 201
AddPush(c) ==
    /\ calls[c].op = "addAvailability" /\ calls[c].pc = "push"
    /\ tutoringAvailability' =
          [tutoringAvailability EXCEPT ![calls[c].user] = @ \o calls[c].created]
    /\ Answer(c, calls[c], 201, "ok")
    /\ UNCHANGED <<now, slots, slotIds, bookings, groupVars>>

\* POST /studyGroups/:id/join and DELETE /studyGroups/:id are received
Receive(c, op, u, id) ==
    /\ calls[c].pc = "idle"
    /\ Goto(c, [Idle EXCEPT !.op = op, !.user = u, !.id = id, !.pc = "find"])
    /\ UNCHANGED <<tutorVars, bookings, groupVars, last>>

\* join: StudyGroup.findById and the checks on the document it returns
JoinFind(c) ==
    /\ calls[c].op = "joinGroup" /\ calls[c].pc = "find"
    /\ LET call == calls[c]
           u == call.user
           id == call.id
       IN  IF id \notin DOMAIN groups THEN Answer(c, call, 404, "NotFound")
           ELSE IF Role(u) # "student" THEN Answer(c, call, 403, "OnlyStudents")
           ELSE IF IsCreator(groups[id], u) THEN Answer(c, call, 400, "AlreadyCreator")
           ELSE IF IsParticipant(groups[id], u)
           THEN Answer(c, call, 400, "AlreadyJoined")
           ELSE Goto(c, [call EXCEPT !.pc = "save"]) /\ UNCHANGED last
    /\ UNCHANGED <<tutorVars, bookings, groupVars>>

\* join: participants.push(id) and studyGroup.save(), which sends the push as
\* an update of the stored document; it updates nothing if the document is gone
JoinSave(c) ==
    /\ calls[c].op = "joinGroup" /\ calls[c].pc = "save"
    /\ groups' = IF calls[c].id \in DOMAIN groups
                 THEN [groups EXCEPT ![calls[c].id].participants =
                                        Append(@, calls[c].user)]
                 ELSE groups
    /\ Goto(c, [calls[c] EXCEPT !.pc = "push"])
    /\ UNCHANGED <<tutorVars, bookings, groupIds, joinedStudyGroups, last>>

\* join: User.findByIdAndUpdate(id, {$push: {joinedStudyGroups}}), then 200
JoinPush(c) ==
    /\ calls[c].op = "joinGroup" /\ calls[c].pc = "push"
    /\ joinedStudyGroups' =
          [joinedStudyGroups EXCEPT ![calls[c].user] = Append(@, calls[c].id)]
    /\ Answer(c, calls[c], 200, "ok")
    /\ UNCHANGED <<tutorVars, bookings, groups, groupIds>>

\* delete: StudyGroup.findById and the checks on the document it returns
DeleteFind(c) ==
    /\ calls[c].op = "deleteGroup" /\ calls[c].pc = "find"
    /\ LET call == calls[c]
           u == call.user
           id == call.id
       IN  IF id \notin DOMAIN groups THEN Answer(c, call, 404, "NotFound")
           ELSE IF groups[id].creator # u THEN Answer(c, call, 403, "OnlyCreator")
           ELSE IF Len(OtherParticipants(groups[id], u)) > 0
           THEN Answer(c, call, 400, "HasParticipants")
           ELSE Goto(c, [call EXCEPT !.pc = "pull"]) /\ UNCHANGED last
    /\ UNCHANGED <<tutorVars, bookings, groupVars>>

\* delete: User.findByIdAndUpdate(creator, {$pull: {joinedStudyGroups}})
DeletePull(c) ==
    /\ calls[c].op = "deleteGroup" /\ calls[c].pc = "pull"
    /\ joinedStudyGroups' =
          [joinedStudyGroups EXCEPT ![calls[c].user] = Without(@, calls[c].id)]
    /\ Goto(c, [calls[c] EXCEPT !.pc = "delete"])
    /\ UNCHANGED <<tutorVars, bookings, groups, groupIds, last>>

\* delete: StudyGroup.findByIdAndDelete(id), then 200
DeleteRemove(c) ==
    /\ calls[c].op = "deleteGroup" /\ calls[c].pc = "delete"
    /\ groups' = IF calls[c].id \in DOMAIN groups THEN Remove(groups, calls[c].id)
                 ELSE groups
    /\ Answer(c, calls[c], 200, "ok")
    /\ UNCHANGED <<tutorVars, bookings, groupIds, joinedStudyGroups>>

\* the awaited operation of call c rejects: catch (err), 500
FailsRollback(c) ==
    /\ calls[c].pc \in {"find", "save", "push", "pull", "delete"}
    /\ Answer(c, calls[c], 500, "ServerError")
    /\ slots' = [i \in {j \in DOMAIN slots :
                           \A n \in DOMAIN calls[c].created : calls[c].created[n] # j}
                  |-> slots[i]]
    /\ groups' = IF calls[c].op = "joinGroup" /\ calls[c].pc = "push"
                    /\ calls[c].id \in DOMAIN groups
                 THEN [groups EXCEPT ![calls[c].id].participants =
                                        Without(@, calls[c].user)]
                 ELSE groups
    /\ UNCHANGED <<now, slotIds, tutoringAvailability, bookings, groupIds,
                   joinedStudyGroups>>

Fails(c) ==
    /\ calls[c].pc \in {"find", "save", "push", "pull", "delete"}
    /\ Answer(c, calls[c], 500, "ServerError")
    /\ UNCHANGED <<tutorVars, bookings, groupVars>>

\* the requests that race: adds of tutor t1 for day 0, joins and deletes
RaceBodies ==
    {<<SlotArg(0, 0, 2)>>, <<SlotArg(0, 1, 2)>>, <<SlotArg(0, 0, 1), SlotArg(0, 1, 2)>>}
RaceAdders == {"t1", "s1"}
RaceJoiners == {"s2", "t1"}
RaceDeleters == {"s1", "s2"}

NextSteps ==
    \/ groupIds < MaxGroups /\ CreateGroup("s1", NewGroup)
    \/ \E c \in Calls, u \in RaceAdders, body \in RaceBodies : ReceiveAdd(c, u, body)
    \/ \E c \in Calls : AddFind(c)
    \/ \E c \in Calls : AddSave(c)
    \/ \E c \in Calls : AddPush(c)
    \/ \E c \in Calls, u \in RaceJoiners, id \in GroupIdArgs :
          Receive(c, "joinGroup", u, id)
    \/ \E c \in Calls : JoinFind(c)
    \/ \E c \in Calls : JoinSave(c)
    \/ \E c \in Calls : JoinPush(c)
    \/ \E c \in Calls, u \in RaceDeleters, id \in GroupIdArgs :
          Receive(c, "deleteGroup", u, id)
    \/ \E c \in Calls : DeleteFind(c)
    \/ \E c \in Calls : DeletePull(c)
    \/ \E c \in Calls : DeleteRemove(c)
    \/ \E c \in Calls : Fails(c)

SpecSteps == Init /\ [][NextSteps]_vars

\* ------------------------------------------------------------ the whole API

Next ==
    \/ NextBooking
    \/ NextAdd
    \/ NextTutor
    \/ NextGroup
    \/ NextAuth
    \/ NextSteps

Spec == Init /\ [][Next]_vars

\* ================================================================== claims

\* the document POST /availability stores for slot s of tutor u
NewSlot(u, s) ==
    [tutor |-> u, day |-> s.day, subject |-> s.subject, startTime |-> s.startTime,
     endTime |-> s.endTime, isActive |-> TRUE]

\* slot k of the body was saved by the step: it is the k-th document created
Persisted(u, body, k) ==
    /\ slotIds + k \in DOMAIN slots'
    /\ slots'[slotIds + k] = NewSlot(u, body[k])

\* the collection when the loop reaches slot k, the slots before it being saved
Before(u, body, k) ==
    [i \in DOMAIN slots \cup (slotIds + 1 .. slotIds + k - 1) |->
        IF i \in DOMAIN slots THEN slots[i] ELSE NewSlot(u, body[i - slotIds])]

\* the tutor's slots of the day of s in collection pre, and the latest of them
SameDay(pre, u, s) == {i \in DOMAIN pre : pre[i].tutor = u /\ pre[i].day = s.day}
Latest(pre, u, s) ==
    {i \in SameDay(pre, u, s) :
        \A j \in SameDay(pre, u, s) : pre[j].startTime <= pre[i].startTime}

\* a step that handles POST /availability with this body for a tutor
AddStep(body) ==
    /\ last'.op = "addAvailability"
    /\ Role(last'.user) = "tutor"
    /\ slotIds' - slotIds <= Len(body)
    /\ last'.status = 201 => slotIds' - slotIds = Len(body)
    /\ \A k \in 1 .. slotIds' - slotIds : Persisted(last'.user, body, k)
    /\ AddAvailability(last'.user, body)

\* C1: when the tutor already has a slot on the day, a proposed slot that starts
\* before the end of the latest existing slot (the one with the greatest
\* startTime) is rejected with 400 and not saved; one that starts at or after
\* that end, and not in the past, is saved, and a request of that one slot is
\* answered 201.
C1_OrderedAgainstLatest ==
    [][last'.op = "addAvailability" => \A body \in AddBodies : AddStep(body) =>
         \A k \in 1 .. Len(body) :
            (\A j \in 1 .. k - 1 : Persisted(last'.user, body, j)) =>
               LET u == last'.user
                   s == body[k]
                   pre == Before(u, body, k)
               IN  SameDay(pre, u, s) # {} =>
                     /\ (\A i \in Latest(pre, u, s) : s.startTime < pre[i].endTime) =>
                           /\ last'.status = 400
                           /\ slotIds' = slotIds + k - 1
                           /\ DOMAIN slots' = DOMAIN pre
                     /\ (/\ s.startTime >= now
                         /\ \A i \in Latest(pre, u, s) : s.startTime >= pre[i].endTime) =>
                           /\ Persisted(u, body, k)
                           /\ Len(body) = k => last'.status = 201
      ]_vars

\* C1 witness: a tutor with two slots of different start on one day got a third
\* one accepted that starts at the end of the later one.
C1_Witness ==
    /\ last.op = "addAvailability" /\ last.status = 201
    /\ \E a, b, c \in DOMAIN slots :
          /\ a < b /\ b < c /\ c = slotIds
          /\ slots[a].tutor = last.user /\ slots[b].tutor = last.user
          /\ slots[c].tutor = last.user
          /\ slots[a].day = slots[c].day /\ slots[b].day = slots[c].day
          /\ slots[a].startTime < slots[b].startTime
          /\ slots[c].startTime = slots[b].endTime
          /\ slots[a].endTime > slots[c].startTime

\* C2: a proposed slot whose startTime is before the current instant is rejected
\* with 400 and not saved, whatever slots the tutor has.
C2_PastStartRejected ==
    [][last'.op = "addAvailability" => \A body \in AddBodies : AddStep(body) =>
         \A k \in 1 .. Len(body) :
            body[k].startTime < now =>
               /\ last'.status = 400
               /\ slotIds' < slotIds + k
               /\ ~Persisted(last'.user, body, k)
      ]_vars

\* C2 witness: a request was rejected for a past start by a tutor who has slots.
C2_Witness ==
    /\ last.op = "addAvailability" /\ last.status = 400
    /\ last.message = "PastStartTime"
    /\ \E i \in DOMAIN slots : slots[i].tutor = last.user
    /\ now > 0

\* some booking of the tutor lies in the half-open window [from, to)
Booked(tutor, from, to) ==
    \E i \in DOMAIN bookings :
        /\ bookings[i].tutor = tutor
        /\ from <= bookings[i].bookingTime
        /\ bookings[i].bookingTime < to

\* the slot after an edit with this body
Edited(slot, body) ==
    [tutor |-> slot.tutor, day |-> slot.day,
     subject |-> IF body.subject \in {NoSubject} THEN slot.subject ELSE body.subject,
     startTime |-> IF body.startTime = NoTime THEN slot.startTime ELSE body.startTime,
     endTime |-> IF body.endTime = NoTime THEN slot.endTime ELSE body.endTime,
     isActive |-> IF body.isActive = NoFlag THEN slot.isActive
                  ELSE body.isActive = "true"]

\* C3: a tutor's edit (without disableDay) or delete of an existing slot is
\* rejected with 400, the slot unchanged, if and only if a booking of that tutor
\* has its bookingTime in the slot's current window [startTime, endTime);
\* otherwise the edit is applied with the values given, the delete removes the
\* slot.
C3_BookedSlotFrozen ==
    [][(/\ last'.op \in {"patchAvailability", "deleteAvailability"}
        /\ Role(last'.user) = "tutor"
        /\ last'.id \in DOMAIN slots) =>
          LET u == last'.user
              id == last'.id
              booked == Booked(u, slots[id].startTime, slots[id].endTime)
          IN  /\ \A body \in PatchBodies :
                    (~body.disableDay /\ PatchAvailability(u, id, body)) =>
                       /\ booked <=> last'.status = 400
                       /\ booked => slots' = slots
                       /\ ~booked => /\ last'.status = 200
                                     /\ slots' = [slots EXCEPT
                                                    ![id] = Edited(slots[id], body)]
              /\ DeleteAvailability(u, id) =>
                    /\ booked <=> last'.status = 400
                    /\ booked => slots' = slots
                    /\ ~booked => /\ last'.status = 200
                                  /\ DOMAIN slots' = DOMAIN slots \ {id}
                                  /\ \A i \in DOMAIN slots' : slots'[i] = slots[i]
      ]_vars

\* C3 witness: a delete or edit was refused because a booking of the requesting
\* tutor sits exactly at the slot's startTime.
C3_Witness ==
    /\ last.op \in {"patchAvailability", "deleteAvailability"}
    /\ last.status = 400 /\ last.message = "Booked"
    /\ last.id \in DOMAIN slots
    /\ \E i \in DOMAIN bookings :
          /\ bookings[i].tutor = last.user
          /\ bookings[i].bookingTime = slots[last.id].startTime
          /\ bookings[i].bookingTime < slots[last.id].endTime

\* C7 (as claimed): a slot is changed or removed only by a request of the tutor
\* who owns it.
C7_OnlyOwnerMutates ==
    [][\A id \in DOMAIN slots :
          (id \notin DOMAIN slots' \/ slots'[id] # slots[id]) =>
             last'.user = slots[id].tutor
      ]_vars

\* C4: with a recognised target status, a tutor sets confirmed or completed from
\* pending or confirmed and is refused cancelled with 403; a student sets
\* cancelled from pending or confirmed and is refused confirmed or completed
\* with 403; a refused request leaves the bookings as they were.
C4_RoleGatedStatus ==
    [][(last'.op = "patchBooking" /\ last'.id \in DOMAIN bookings) =>
          \A st \in ValidStatus, bt \in BookingTimeArgs :
             PatchBooking(last'.user, last'.id, st, bt) =>
                LET id == last'.id
                    role == Role(last'.user)
                    open == bookings[id].status \in {"pending", "confirmed"}
                IN  /\ (role = "tutor" /\ st \in {"confirmed", "completed"} /\ open) =>
                          last'.status = 200 /\ bookings'[id].status = st
                    /\ (role = "tutor" /\ st = "cancelled") =>
                          last'.status = 403 /\ bookings' = bookings
                    /\ (role = "student" /\ st = "cancelled" /\ open) =>
                          last'.status = 200 /\ bookings'[id].status = st
                    /\ (role = "student" /\ st \in {"confirmed", "completed"}) =>
                          last'.status = 403 /\ bookings' = bookings
                    /\ last'.status # 200 => bookings' = bookings
      ]_vars

\* C4 witness: a tutor's cancel was refused on a booking a tutor had confirmed.
C4_Witness ==
    /\ last.op = "patchBooking" /\ last.status = 403
    /\ last.message = "TutorsCannotCancel"
    /\ last.id \in DOMAIN bookings
    /\ bookings[last.id].status = "confirmed"

\* C5 (as claimed): completed and cancelled are terminal: once a booking is
\* completed or cancelled, no later request changes its status.
C5_TerminalStatus ==
    [][\A id \in DOMAIN bookings :
          bookings[id].status \in {"completed", "cancelled"} =>
             bookings'[id].status = bookings[id].status
      ]_vars

\* C5 (amended): a booking starts pending and its status changes only by an
\* accepted PATCH of that booking, to confirmed or completed when a tutor asks
\* and to cancelled when a student asks, from whatever status it has; it never
\* returns to pending.
C5_RoleGatedFromAnyStatus ==
    [][/\ \A id \in DOMAIN bookings' \ DOMAIN bookings :
             bookings'[id].status = "pending"
       /\ \A id \in DOMAIN bookings :
             bookings'[id].status # bookings[id].status =>
                /\ last'.op = "patchBooking" /\ last'.id = id /\ last'.status = 200
                /\ \/ /\ Role(last'.user) = "tutor"
                      /\ bookings'[id].status \in {"confirmed", "completed"}
                   \/ /\ Role(last'.user) = "student"
                      /\ bookings'[id].status = "cancelled"
      ]_vars

\* C5 witness: a student's accepted PATCH left the booking cancelled.
C5_Witness ==
    /\ last.op = "patchBooking" /\ last.status = 200
    /\ Role(last.user) = "student"
    /\ last.id \in DOMAIN bookings
    /\ bookings[last.id].status = "cancelled"

\* C6 (as claimed): the status of a booking is changed only by a request of the
\* user stored as its tutor (to confirmed or completed) or as its student (to
\* cancelled).
C6_OnlyOwnParties ==
    [][\A id \in DOMAIN bookings :
          bookings'[id].status # bookings[id].status =>
             \/ /\ last'.user = bookings[id].tutor
                /\ bookings'[id].status \in {"confirmed", "completed"}
             \/ /\ last'.user = bookings[id].student
                /\ bookings'[id].status = "cancelled"
      ]_vars

\* C8: every study group that exists has its creator among its participants,
\* and a group just created has the creator as its only participant.
C8_CreatorParticipates ==
    /\ \A id \in DOMAIN groups :
          \E i \in DOMAIN groups[id].participants :
             groups[id].participants[i] = groups[id].creator
    /\ (last.op = "createGroup" /\ last.status = 201) =>
          groups[last.id].participants = <<last.user>>

\* C8 witness: the creator of a group with other participants asked to leave
\* and was refused.
C8_Witness ==
    /\ last.op = "leaveGroup" /\ last.status = 400
    /\ last.message = "CreatorCannotLeave"
    /\ last.id \in DOMAIN groups
    /\ groups[last.id].creator = last.user
    /\ Len(groups[last.id].participants) > 1

\* the users in a participants list
Members(g) == {g.participants[i] : i \in DOMAIN g.participants}

\* C9: a student's join of an existing group fails with 400 and changes nothing
\* when the student is its creator or already a participant; otherwise the
\* student is appended to its participants and the group to the student's
\* joinedStudyGroups, and nothing else changes.
C9_JoinGuard ==
    [][(/\ last'.op = "joinGroup"
        /\ Role(last'.user) = "student"
        /\ last'.id \in DOMAIN groups) =>
          LET u == last'.user
              id == last'.id
          IN  IF groups[id].creator = u \/ u \in Members(groups[id])
              THEN /\ last'.status = 400
                   /\ groups' = groups
                   /\ joinedStudyGroups' = joinedStudyGroups
              ELSE /\ last'.status = 200
                   /\ groups' = [groups EXCEPT ![id].participants = Append(@, u)]
                   /\ joinedStudyGroups' =
                         [joinedStudyGroups EXCEPT ![u] = Append(@, id)]
      ]_vars

\* C9 witness: a third student joined a group, after the other two.
C9_Witness ==
    /\ last.op = "joinGroup" /\ last.status = 200
    /\ last.id \in DOMAIN groups
    /\ Len(groups[last.id].participants) = 3
    /\ groups[last.id].participants[3] = last.user
    /\ joinedStudyGroups[last.user] = <<last.id>>

\* C10: a student's leave of an existing group fails with 400 and changes
\* nothing when the student is its creator or no participant; otherwise exactly
\* the student is removed from its participants and the group from the
\* student's joinedStudyGroups, every other participant staying in place.
C10_LeaveGuard ==
    [][(/\ last'.op = "leaveGroup"
        /\ Role(last'.user) = "student"
        /\ last'.id \in DOMAIN groups) =>
          LET u == last'.user
              id == last'.id
          IN  IF groups[id].creator = u \/ u \notin Members(groups[id])
              THEN /\ last'.status = 400
                   /\ groups' = groups
                   /\ joinedStudyGroups' = joinedStudyGroups
              ELSE /\ last'.status = 200
                   /\ groups' = [groups EXCEPT ![id].participants =
                                    SelectSeq(@, LAMBDA p : p # u)]
                   /\ Members(groups'[id]) = Members(groups[id]) \ {u}
                   /\ joinedStudyGroups' =
                         [joinedStudyGroups EXCEPT ![u] =
                             SelectSeq(@, LAMBDA g : g # id)]
      ]_vars

\* C10 witness: a participant left a group of three; the creator and the other
\* participant are still there and still list the group, the leaver does not.
C10_Witness ==
    /\ last.op = "leaveGroup" /\ last.status = 200
    /\ last.id \in DOMAIN groups
    /\ Len(groups[last.id].participants) = 2
    /\ groups[last.id].participants[1] = groups[last.id].creator
    /\ joinedStudyGroups[last.user] = <<>>
    /\ joinedStudyGroups[groups[last.id].participants[2]] = <<last.id>>

\* a sequence without its last element
Front(seq) == SubSeq(seq, 1, Len(seq) - 1)

\* C11: when a student who was neither creator nor participant has joined a
\* group and the very next request is that student's successful leave of the
\* same group, the group's participants and the student's joinedStudyGroups are
\* again what they were before the join (the join appended one element to each),
\* and nothing else differs from the state after the join.
C11_JoinLeaveInverse ==
    [][(/\ last.op = "joinGroup" /\ last.status = 200
        /\ last'.op = "leaveGroup" /\ last'.status = 200
        /\ last'.user = last.user /\ last'.id = last.id) =>
          LET u == last.user
              id == last.id
              joined == groups[id].participants
              listed == joinedStudyGroups[u]
          IN  /\ joined[Len(joined)] = u
              /\ u \notin Members([participants |-> Front(joined)])
              /\ listed[Len(listed)] = id
              /\ groups'[id].participants = Front(joined)
              /\ joinedStudyGroups'[u] = Front(listed)
              /\ groups' = [groups EXCEPT ![id].participants = Front(joined)]
              /\ joinedStudyGroups' = [joinedStudyGroups EXCEPT ![u] = Front(listed)]
      ]_vars

\* C11 witness: a student's leave has brought a group back to its creator alone,
\* the student's list back to empty.
C11_Witness ==
    /\ last.op = "leaveGroup" /\ last.status = 200
    /\ last.id \in DOMAIN groups
    /\ groups[last.id].participants = <<groups[last.id].creator>>
    /\ joinedStudyGroups[last.user] = <<>>
    /\ joinedStudyGroups[groups[last.id].creator] = <<last.id>>

\* the request carries a value for subject, date or time
CarriesLockedField(body) ==
    \/ body.subject \notin {Undefined, ""}
    \/ body.date \notin {Undefined, ""}
    \/ body.time \notin {Undefined, ""}

\* C12: the creator's update of an existing group is rejected with 400, the
\* group unchanged, exactly when the group has more than one participant and
\* the request carries a subject, date or time; a creator's request carrying
\* only description and/or duration is answered 200 and applied whatever the
\* number of participants; and in no step does the subject, date or time of a
\* group with more than one participant change.
C12_LockedOnceJoined ==
    [][/\ (/\ last'.op = "updateGroup"
           /\ last'.id \in DOMAIN groups
           /\ groups[last'.id].creator = last'.user) =>
             \A body \in UpdateBodies :
                UpdateGroup(last'.user, last'.id, body) =>
                   LET g == groups[last'.id]
                       locked == Len(g.participants) > 1 /\ CarriesLockedField(body)
                   IN  /\ last'.status = 400 <=> locked
                       /\ locked => groups' = groups
                       /\ ~CarriesLockedField(body) =>
                             /\ last'.status = 200
                             /\ body.description # Undefined =>
                                   groups'[last'.id].description = body.description
                             /\ body.duration \notin {Undefined, ""} =>
                                   groups'[last'.id].duration = body.duration
       /\ \A id \in DOMAIN groups \cap DOMAIN groups' :
             Len(groups[id].participants) > 1 =>
                /\ groups'[id].subject = groups[id].subject
                /\ groups'[id].date = groups[id].date
                /\ groups'[id].time = groups[id].time
      ]_vars

\* C12 witness: the creator of a group with two participants was refused a new
\* subject, and the description of that group had been changed.
C12_Witness ==
    /\ last.op = "updateGroup" /\ last.status = 400 /\ last.message = "Locked"
    /\ last.id \in DOMAIN groups
    /\ Len(groups[last.id].participants) = 2
    /\ groups[last.id].subject = "a"
    /\ groups[last.id].description = "b"

\* the fields of a group that PATCH /studyGroups/:id writes
Details(g) == <<g.subject, g.description, g.date, g.time, g.duration>>

\* C13: an update or delete of an existing group by anyone but its creator is
\* answered 403 and changes nothing; the creator's delete is answered 400 and
\* changes nothing while a participant other than the creator remains, and
\* removes the group when the creator is the only participant; in every step a
\* group's details change, or the group disappears, only by a request of its
\* creator, and a group that disappears had the creator as only participant.
C13_CreatorOnlyEdits ==
    [][/\ (/\ last'.op \in {"updateGroup", "deleteGroup"}
           /\ last'.id \in DOMAIN groups
           /\ groups[last'.id].creator # last'.user) =>
             /\ last'.status = 403
             /\ groups' = groups
             /\ joinedStudyGroups' = joinedStudyGroups
       /\ (/\ last'.op = "deleteGroup"
           /\ last'.id \in DOMAIN groups
           /\ groups[last'.id].creator = last'.user) =>
             IF Members(groups[last'.id]) # {last'.user}
             THEN /\ last'.status = 400
                  /\ groups' = groups
                  /\ joinedStudyGroups' = joinedStudyGroups
             ELSE /\ last'.status = 200
                  /\ DOMAIN groups' = DOMAIN groups \ {last'.id}
                  /\ \A i \in DOMAIN groups' : groups'[i] = groups[i]
       /\ \A id \in DOMAIN groups :
             /\ (id \in DOMAIN groups' /\ Details(groups'[id]) # Details(groups[id])) =>
                   /\ last'.op = "updateGroup"
                   /\ last'.id = id
                   /\ last'.user = groups[id].creator
             /\ id \notin DOMAIN groups' =>
                   /\ last'.op = "deleteGroup"
                   /\ last'.id = id
                   /\ last'.user = groups[id].creator
                   /\ Members(groups[id]) = {groups[id].creator}
      ]_vars

\* C13 witness: the creator's delete was refused because another participant
\* remains in the group.
C13_Witness ==
    /\ last.op = "deleteGroup" /\ last.status = 400
    /\ last.message = "HasParticipants"
    /\ last.id \in DOMAIN groups
    /\ groups[last.id].creator = last.user
    /\ Len(groups[last.id].participants) = 2

\* the groups in a user's joinedStudyGroups
Listed(u) == {joinedStudyGroups[u][i] : i \in DOMAIN joinedStudyGroups[u]}

\* C14: after every request, a user's joinedStudyGroups contains a group if and
\* only if the group exists and the user is one of its participants.
C14_ListsMatchParticipants ==
    \A u \in Users, id \in 1 .. groupIds :
        id \in Listed(u) <=> (id \in DOMAIN groups /\ u \in Members(groups[id]))

\* C14 witness: a group was deleted by its creator; it is gone from the
\* collection and from every user's list.
C14_Witness ==
    /\ last.op = "deleteGroup" /\ last.status = 200
    /\ last.id \notin DOMAIN groups
    /\ groupIds >= last.id
    /\ \A u \in Users : last.id \notin Listed(u)

\* the slots in a tutor's tutoringAvailability
ListedSlots(u) == {tutoringAvailability[u][i] : i \in DOMAIN tutoringAvailability[u]}

\* C15 (as claimed): after every request, a user's tutoringAvailability
\* contains a slot identifier if and only if that slot exists and belongs to
\* that user.
C15_ListMatchesSlots ==
    \A u \in Users, id \in 1 .. slotIds :
        id \in ListedSlots(u) <=> (id \in DOMAIN slots /\ slots[id].tutor = u)

\* the documents and lists of the store
store == <<slots, slotIds, tutoringAvailability, bookings, groups, groupIds,
           joinedStudyGroups>>

\* the request is one that the role of its sender forbids
WrongRole(r) ==
    \/ /\ r.op \in {"addAvailability", "patchAvailability", "deleteAvailability"}
       /\ r.user \notin Tutors
    \/ /\ r.op \in {"createBooking", "createGroup", "joinGroup", "leaveGroup"}
       /\ r.user \notin Students

\* C16 (as claimed): an availability add, edit or delete by a non-tutor, and a
\* booking creation, group creation, join or leave by a non-student, is
\* answered 403 and leaves the store unchanged.
C16_RoleBeforeAnyCheck ==
    [][WrongRole(last') => (last'.status = 403 /\ UNCHANGED store)]_vars

\* C16 (amended): such a request leaves the store unchanged and is answered
\* 403, except a join or leave of a group that does not exist, which is
\* answered 404 because the group is looked up before the role is checked.
C16_RoleGate ==
    [][WrongRole(last') =>
          /\ UNCHANGED store
          /\ last'.status =
                IF last'.op \in {"joinGroup", "leaveGroup"} /\ last'.id \notin DOMAIN groups
                THEN 404 ELSE 403
      ]_vars

\* C16 witness: a tutor's join of an existing group was refused with 403 while
\* a slot and a booking exist.
C16_Witness ==
    /\ last.op = "joinGroup" /\ last.status = 403
    /\ last.user \in Tutors
    /\ last.id \in DOMAIN groups
    /\ DOMAIN slots # {} /\ DOMAIN bookings # {}

\* C17: a PATCH of an existing booking that names a status other than
\* confirmed, completed or cancelled is answered 400 and leaves every booking
\* as it was, the bookingTime too when the request carries a new one.
C17_InvalidStatusRejected ==
    [][(last'.op = "patchBooking" /\ last'.id \in DOMAIN bookings) =>
          \A st \in StatusArgs \ {NoStatus, "confirmed", "completed", "cancelled"},
             bt \in BookingTimeArgs :
                PatchBooking(last'.user, last'.id, st, bt) =>
                   /\ last'.status = 400
                   /\ bookings' = bookings
      ]_vars

\* C17 witness: an unrecognised status was refused for a confirmed booking
\* that still has the bookingTime it was created with.
C17_Witness ==
    /\ last.op = "patchBooking" /\ last.status = 400
    /\ last.message = "InvalidStatus"
    /\ last.id \in DOMAIN bookings
    /\ bookings[last.id].status = "confirmed"
    /\ bookings[last.id].bookingTime = 0

\* C18: a booking appears only by a student's create request and with status
\* pending; no booking ever disappears; the student, tutor and subject of a
\* booking never change.
C18_BookingsOnlyGrow ==
    [][/\ DOMAIN bookings \subseteq DOMAIN bookings'
       /\ \A id \in DOMAIN bookings :
             /\ bookings'[id].student = bookings[id].student
             /\ bookings'[id].tutor = bookings[id].tutor
             /\ bookings'[id].subject = bookings[id].subject
       /\ \A id \in DOMAIN bookings' \ DOMAIN bookings :
             /\ last'.op = "createBooking" /\ last'.status = 201
             /\ last'.user \in Students
             /\ bookings'[id].student = last'.user
             /\ bookings'[id].status = "pending"
      ]_vars

\* C18 witness: a booking of student s1 with tutor t1 is still theirs after its
\* status and its bookingTime were changed.
C18_Witness ==
    /\ 1 \in DOMAIN bookings
    /\ bookings[1].student = "s1" /\ bookings[1].tutor = "t1"
    /\ bookings[1].subject = "math"
    /\ bookings[1].status = "completed"
    /\ bookings[1].bookingTime = 1

\* some booking of the tutor lies on the calendar day
BookedOnDay(tutor, day) ==
    \E i \in DOMAIN bookings :
        /\ bookings[i].tutor = tutor
        /\ bookings[i].bookingTime \div DayLen = day

\* the collection after every slot of the tutor on the day was disabled
DayDisabled(tutor, day) ==
    [i \in DOMAIN slots |->
        IF slots[i].tutor = tutor /\ slots[i].day = day
        THEN [tutor |-> slots[i].tutor, day |-> slots[i].day,
              subject |-> slots[i].subject, startTime |-> slots[i].startTime,
              endTime |-> slots[i].endTime, isActive |-> FALSE]
        ELSE slots[i]]

\* C19 (as claimed): a tutor's PATCH with disableDay of an existing slot is
\* answered 400 and changes nothing if the tutor has a booking in the slot's
\* [startTime, endTime) or at any instant of the slot's calendar day; otherwise
\* it is answered 200 and sets isActive to false on every slot of that tutor
\* for that day and changes nothing else, whatever else the body carries.
C19_DisableDayWholeDay ==
    [][(/\ last'.op = "patchAvailability"
        /\ last'.user \in Tutors
        /\ last'.id \in DOMAIN slots) =>
          \A body \in PatchBodies :
             (body.disableDay /\ PatchAvailability(last'.user, last'.id, body)) =>
                LET u == last'.user
                    slot == slots[last'.id]
                IN  IF \/ Booked(u, slot.startTime, slot.endTime)
                       \/ BookedOnDay(u, slot.day)
                    THEN last'.status = 400 /\ slots' = slots
                    ELSE last'.status = 200 /\ slots' = DayDisabled(u, slot.day)
      ]_vars

\* C20: a PATCH of an existing booking that carries only a bookingTime is
\* answered 200 whoever sends it and whatever slots the tutor has, and sets
\* exactly the bookingTime; an accepted PATCH that carries only a status sets
\* exactly the status.
C20_TimeIndependentOfStatus ==
    [][(last'.op = "patchBooking" /\ last'.id \in DOMAIN bookings) =>
          LET u == last'.user
              id == last'.id
          IN  /\ \A bt \in BookingTimeArgs \ {NoTime} :
                    PatchBooking(u, id, NoStatus, bt) =>
                       /\ last'.status = 200
                       /\ bookings' = [bookings EXCEPT ![id].bookingTime = bt]
              /\ \A st \in ValidStatus :
                    (PatchBooking(u, id, st, NoTime) /\ last'.status = 200) =>
                       bookings' = [bookings EXCEPT ![id].status = st]
      ]_vars

\* C20 witness: the bookingTime of a booking was changed by a request of its
\* tutor while the booking is still pending and no slot exists.
C20_Witness ==
    /\ last.op = "patchBooking" /\ last.status = 200
    /\ last.id \in DOMAIN bookings
    /\ bookings[last.id].tutor = last.user
    /\ bookings[last.id].status = "pending"
    /\ bookings[last.id].bookingTime = 1
    /\ DOMAIN slots = {}

\* two slots overlap as half-open intervals
Overlap(a, b) == a.startTime < b.endTime /\ b.startTime < a.endTime

\* C23: with slots created only by add requests handled one at a time, if
\* every slot saved has its startTime before its endTime then no two slots of
\* one tutor on one day overlap.
C23_NoOverlapWhenWellFormed ==
    (\A i \in DOMAIN slots : slots[i].startTime < slots[i].endTime) =>
        \A i, j \in DOMAIN slots :
            (i # j /\ slots[i].tutor = slots[j].tutor /\ slots[i].day = slots[j].day) =>
                ~Overlap(slots[i], slots[j])

\* C23 witness: a tutor has two adjacent well-formed slots on one day, the
\* second just accepted, and every slot saved is well formed.
C23_Witness ==
    /\ last.op = "addAvailability" /\ last.status = 201
    /\ \A i \in DOMAIN slots : slots[i].startTime < slots[i].endTime
    /\ \E i, j \in DOMAIN slots :
          /\ i < j /\ j = slotIds
          /\ slots[i].tutor = slots[j].tutor /\ slots[i].day = slots[j].day
          /\ slots[j].startTime = slots[i].endTime

\* C24: a tutor's add request saves its slots in request order until one is
\* rejected: answered 400, it has saved exactly the slots before the rejected
\* one, which is in the past or starts before the end of the latest slot of
\* its day (the slots saved before it included), and has left every
\* tutoringAvailability list as it was; answered 201, it has saved all its
\* slots and appended their identifiers, in order, to the tutor's list.
C24_SlotsSavedOneByOne ==
    [][(last'.op = "addAvailability" /\ last'.user \in Tutors) =>
          \A body \in AddBodies :
             AddAvailability(last'.user, body) =>
                LET u == last'.user
                    n == slotIds' - slotIds
                IN  /\ last'.status \in {201, 400}
                    /\ DOMAIN slots' = DOMAIN slots \cup (slotIds + 1 .. slotIds + n)
                    /\ \A j \in 1 .. n : j <= Len(body) /\ Persisted(u, body, j)
                    /\ last'.status = 400 =>
                          /\ n < Len(body)
                          /\ tutoringAvailability' = tutoringAvailability
                          /\ LET s == body[n + 1]
                                 pre == Before(u, body, n + 1)
                             IN  \/ s.startTime < now
                                 \/ \E i \in Latest(pre, u, s) :
                                       s.startTime < pre[i].endTime
                    /\ last'.status = 201 =>
                          /\ n = Len(body)
                          /\ tutoringAvailability' =
                                [tutoringAvailability EXCEPT
                                   ![u] = @ \o [j \in 1 .. n |-> slotIds + j]]
      ]_vars

\* C24 witness: a request was rejected at a later slot; the slot saved before
\* it exists and is in no list.
C24_Witness ==
    /\ last.op = "addAvailability" /\ last.status = 400
    /\ slotIds \in DOMAIN slots
    /\ slots[slotIds].tutor = last.user
    /\ slotIds \notin ListedSlots(last.user)

\* C25: no participants list holds a user twice and no joinedStudyGroups list
\* holds a group twice.
C25_NoDuplicates ==
    /\ \A id \in DOMAIN groups :
          \A i, j \in DOMAIN groups[id].participants :
             groups[id].participants[i] = groups[id].participants[j] => i = j
    /\ \A u \in Users :
          \A i, j \in DOMAIN joinedStudyGroups[u] :
             joinedStudyGroups[u][i] = joinedStudyGroups[u][j] => i = j

\* C25 witness: a participant of a group of three asked to join it again and
\* was refused.
C25_Witness ==
    /\ last.op = "joinGroup" /\ last.status = 400
    /\ last.message = "AlreadyJoined"
    /\ last.id \in DOMAIN groups
    /\ Len(groups[last.id].participants) = 3
    /\ last.user \in Members(groups[last.id])

\* C21: an add request that has passed the ordering check against the slots
\* it read saves its slot whatever has been saved since: the check is not
\* repeated at the save.  So two requests of one tutor for one day that both
\* read before either saves are both persisted, overlapping or not.
C21_SaveNotRechecked ==
    [][\A c \in Calls :
          (/\ calls[c].op = "addAvailability" /\ calls[c].pc = "save"
           /\ calls'[c] # calls[c]
           /\ calls'[c].status # 500) =>
             LET s == calls[c].body[calls[c].k]
                 id == slotIds + 1
             IN  /\ calls'[c].pc \in {"find", "push"}
                 /\ calls'[c].created = Append(calls[c].created, id)
                 /\ id \in DOMAIN slots'
                 /\ slots'[id] = NewSlot(calls[c].user, s)
                 /\ \A i \in DOMAIN slots : slots'[i] = slots[i]
      ]_vars

\* C21 witness: two requests of tutor t1 for day 0 both read an empty day,
\* both were answered 201, and the two slots they saved overlap.
C21_Witness ==
    /\ \A c \in Calls :
          /\ calls[c].op = "addAvailability" /\ calls[c].user = "t1"
          /\ calls[c].pc = "done" /\ calls[c].status = 201
          /\ Len(calls[c].body) = 1
          /\ calls[c].existing = {}
    /\ DOMAIN slots = {1, 2}
    /\ slots[1].tutor = slots[2].tutor /\ slots[1].day = slots[2].day
    /\ Overlap(slots[1], slots[2])
    /\ slots[1].startTime < slots[1].endTime /\ slots[2].startTime < slots[2].endTime

\* C22: when the second write of an add or a join rejects (the append to the
\* user's list, after the slots or the participant were saved), the request is
\* answered 500 and the store is left as it is: the slots the request saved
\* still exist and are in no list, the participant it added is still in the
\* group.
C22_NoRollback ==
    [][\A c \in Calls :
          (/\ calls[c].op \in {"addAvailability", "joinGroup"}
           /\ calls[c].pc = "push"
           /\ calls'[c].pc = "done" /\ calls'[c].status = 500) =>
             LET call == calls[c]
             IN  /\ last'.status = 500 /\ last'.op = call.op /\ last'.user = call.user
                 /\ UNCHANGED store
                 /\ call.op = "addAvailability" =>
                       /\ Len(call.created) = Len(call.body)
                       /\ \A n \in DOMAIN call.created :
                             /\ call.created[n] \in DOMAIN slots'
                             /\ slots'[call.created[n]] = NewSlot(call.user, call.body[n])
                             /\ \A u \in Users :
                                   \A i \in DOMAIN tutoringAvailability'[u] :
                                      tutoringAvailability'[u][i] # call.created[n]
                 /\ (call.op = "joinGroup" /\ call.id \in DOMAIN groups') =>
                       call.user \in Members(groups'[call.id])
      ]_vars

\* C22 witness: an add and a join were both answered 500 at their second
\* write; the slot exists and is in no list, the student is a participant of
\* the group and does not list it.
C22_Witness ==
    \E c, d \in Calls :
        /\ calls[c].op = "addAvailability" /\ calls[c].status = 500
        /\ Len(calls[c].created) = 1 /\ Len(calls[c].body) = 1
        /\ calls[c].created[1] \in DOMAIN slots
        /\ calls[c].created[1] \notin ListedSlots(calls[c].user)
        /\ calls[d].op = "joinGroup" /\ calls[d].status = 500
        /\ calls[d].id \in DOMAIN groups
        /\ calls[d].user \in Members(groups[calls[d].id])
        /\ calls[d].id \notin Listed(calls[d].user)

\* C26 (as claimed): however a creator's delete and a student's join of the
\* same group interleave, a group is removed only while its creator is its
\* only participant, and once the requests are answered (none of them with a
\* server error) no joinedStudyGroups list names a group that does not exist.
C26_DeleteJoinRaceSafe ==
    [][/\ \A id \in DOMAIN groups \ DOMAIN groups' :
             Members(groups[id]) = {groups[id].creator}
       /\ (\A c \in Calls : calls'[c].pc \in {"idle", "done"} /\ calls'[c].status # 500) =>
             \A u \in Users :
                \A i \in DOMAIN joinedStudyGroups'[u] :
                   joinedStudyGroups'[u][i] \in DOMAIN groups'
      ]_vars

====
